---- MODULE Spec2Model ----
(***************************************************************************)
(* Model of the resumable export pipeline of mongo-backup                  *)
(* (lib/mongo-dumper.js: MongoDumper.run, dumpMonth, loadState, saveState, *)
(* generateMonthlyRanges, generateAdaptiveRanges; bin/cli.js: the dump     *)
(* command and the signal handlers).                                       *)
(*                                                                         *)
(* Time is counted in ticks, MonthLen ticks per calendar month; a document *)
(* is identified by the value of its partition field (a tick).  The state  *)
(* file is a sequence of JSON tokens, so that a half-written file is a     *)
(* proper prefix of the full text and JSON.parse is a real parser.         *)
(***************************************************************************)
EXTENDS Integers, Sequences, FiniteSets, TLC

\* ---------------------------------------------------------------- bounds
NMonths == 3
MonthLen == 4
MaxRuns == 3

\* maxDocsPerRange (default 1000000 in the source), scaled down
maxDocsPerRange == 2

\* ---------------------------------------------------------------- keys
MonthKeys == <<"2023-01", "2023-02", "2023-03", "2023-04", "2023-05", "2023-06",
               "2023-07", "2023-08", "2023-09", "2023-10", "2023-11", "2023-12">>

\* A unit key is <<"YYYY-MM", n>>: n = 0 is the month key "YYYY-MM" itself,
\* n > 0 is "YYYY-MM-part<n>".
MonthKey(m) == <<MonthKeys[m + 1], 0>>
PartKey(key, n) == <<key[1], n>>
MonthOfKey(key) == <<key[1], 0>>

\* a key left in the state file by a campaign over another collection that
\* used the same output directory
ForeignKey == <<"2022-12", 0>>

\* ---------------------------------------------------------------- source
Months == 0 .. (NMonths - 1)
\* offsets of the documents of one month: none, one, or more than maxDocsPerRange
DocChoices == { {}, {0}, 0 .. maxDocsPerRange }
Sources == { UNION { { m * MonthLen + o : o \in c[m] } : m \in Months } : c \in [Months -> DocChoices] }

SetMin(S) == CHOOSE x \in S : \A y \in S : x <= y
SetMax(S) == CHOOSE x \in S : \A y \in S : y <= x

RECURSIVE SortedSeq(_)
SortedSeq(S) == IF S = {} THEN <<>> ELSE <<SetMin(S)>> \o SortedSeq(S \ {SetMin(S)})

\* coll.find({field: {$gte: start, $lt: end}}).sort({field: 1})
Find(src, start, end) == SortedSeq({ d \in src : start <= d /\ d < end })
\* coll.countDocuments({field: {$gte: start, $lt: end}})
getMonthlyDocumentCount(src, start, end) == Cardinality({ d \in src : start <= d /\ d < end })

SeqToSet(s) == { s[k] : k \in 1 .. Len(s) }

\* ---------------------------------------------------------------- planner
\* getDateRange: the smallest and the largest value of the partition field
getDateRange(src) == [minDate |-> SetMin(src), maxDate |-> SetMax(src)]

MonthStart_same(t) == t

\* first tick of the month containing t: new Date(year, month, 1)
MonthStart(t) == (t \div MonthLen) * MonthLen

\* the while loop of generateMonthlyRanges, from `current` up to `end`
RECURSIVE MonthlyLoop(_, _)
MonthlyLoop(current, end) ==
    IF current < end
    THEN << [start |-> current, end |-> current + MonthLen, key |-> MonthKey(current \div MonthLen)] >>
            \o MonthlyLoop(current + MonthLen, end)
    ELSE << >>

generateMonthlyRanges_exclusive(minDate, maxDate) ==
    MonthlyLoop(MonthStart(minDate), MonthStart(maxDate))

generateMonthlyRanges(minDate, maxDate) ==
    MonthlyLoop(MonthStart(minDate), MonthStart(maxDate) + MonthLen)

CeilDiv_floor(a, b) == a \div b

\* Math.ceil(a / b) for a >= 0, b > 0
CeilDiv(a, b) == (a + b - 1) \div b

adaptiveSplit_even(monthRange, totalDocs, limit) ==
    LET numRanges == CeilDiv(totalDocs, limit)
        subRangeDuration == (monthRange.end - monthRange.start) \div numRanges
    IN  IF totalDocs <= limit
        THEN << monthRange >>
        ELSE [ n \in 1 .. numRanges |->
                 [start |-> monthRange.start + (n - 1) * subRangeDuration,
                  end   |-> monthRange.start + n * subRangeDuration,
                  key   |-> PartKey(monthRange.key, n)] ]

\* generateAdaptiveRanges once countDocuments has answered totalDocs, with the
\* maxDocsPerRange parameter as `limit`
adaptiveSplit(monthRange, totalDocs, limit) ==
    LET numRanges == CeilDiv(totalDocs, limit)
        monthDuration == monthRange.end - monthRange.start
        subRangeDuration == monthDuration \div numRanges
    IN  IF totalDocs <= limit
        THEN << monthRange >>
        ELSE [ n \in 1 .. numRanges |->
                 [start |-> monthRange.start + (n - 1) * subRangeDuration,
                  end   |-> IF n = numRanges THEN monthRange.end
                            ELSE monthRange.start + n * subRangeDuration,
                  key   |-> PartKey(monthRange.key, n)] ]

generateAdaptiveRanges(src, monthRange) ==
    adaptiveSplit(monthRange, getMonthlyDocumentCount(src, monthRange.start, monthRange.end),
                  maxDocsPerRange)

\* the largest number of sub-ranges a month of the source family can have
MaxParts == CeilDiv(maxDocsPerRange + 1, maxDocsPerRange)
AllKeys == { <<MonthKeys[m + 1], n>> : m \in Months, n \in 0 .. MaxParts }

\* ---------------------------------------------------------------- state file
\* The text of the state file is a sequence of tokens <<text, n>>; a key
\* token is the key itself.
Tok(s) == <<s, 0>>
EmptyState == [completedMonths |-> << >>, lastProcessed |-> Tok("null")]

\* JSON.stringify(state, null, 2)
Stringify(state) ==
    << Tok("{"), Tok("completedMonths"), Tok("[") >> \o state.completedMonths
        \o << Tok("]"), Tok("lastProcessed"), state.lastProcessed, Tok("}") >>

\* texts that are valid JSON but not a state: `{}` and `null`
EmptyObjectText == << Tok("{"), Tok("}") >>
NullText == << Tok("null") >>
\* what JSON.parse gives for them: values with no completedMonths array
NoArray == [completedMonths |-> << Tok("undefined") >>, lastProcessed |-> Tok("undefined")]
ParseError == [completedMonths |-> << Tok("SyntaxError") >>, lastProcessed |-> Tok("SyntaxError")]

IsPunct(tok) == tok[1] \in {"{", "}", "[", "]", "completedMonths", "lastProcessed", "undefined", "SyntaxError"}

\* JSON.parse(text)
JSONParse(text) ==
    LET n == Len(text) IN
    IF text = EmptyObjectText \/ text = NullText THEN NoArray
    ELSE IF /\ n >= 7
            /\ text[1] = Tok("{") /\ text[2] = Tok("completedMonths") /\ text[3] = Tok("[")
            /\ text[n - 3] = Tok("]") /\ text[n - 2] = Tok("lastProcessed")
            /\ ~IsPunct(text[n - 1]) /\ text[n] = Tok("}")
            /\ \A k \in 4 .. (n - 4) : ~IsPunct(text[k])
         THEN [completedMonths |-> SubSeq(text, 4, n - 4), lastProcessed |-> text[n - 1]]
         ELSE ParseError

AbsentFile == [exists |-> FALSE, text |-> << >>]
FileOf(text) == [exists |-> TRUE, text |-> text]

\* loadState: readFile + JSON.parse, any exception gives the empty state
loadState(file) ==
    IF ~file.exists THEN EmptyState
    ELSE LET parsed == JSONParse(file.text)
         IN  IF parsed = ParseError THEN EmptyState ELSE parsed

\* `state.completedMonths.length` and `.includes` need an array
HasArray(state) == state # NoArray

\* ---------------------------------------------------------------- orchestrator helpers
\* (mutant) the filter keeps every month
pendingFilter_keepsAll(monthlyRanges, completedMonths) == monthlyRanges

\* run: monthlyRanges.filter(range => !state.completedMonths.includes(range.key))
pendingFilter(monthlyRanges, completedMonths) ==
    SelectSeq(monthlyRanges, LAMBDA range : range.key \notin SeqToSet(completedMonths))

\* (mutant) the key is not pushed
markComplete_noPush(st, key) ==
    [completedMonths |-> st.completedMonths, lastProcessed |-> Tok("ts")]

\* run: state.completedMonths.push(monthRange.key); state.lastProcessed = now
markComplete(st, key) ==
    [completedMonths |-> Append(st.completedMonths, key), lastProcessed |-> Tok("ts")]

\* run: the test guarding the removal of the state file on completion
finalizeDeletes(st, monthlyRanges) == Len(st.completedMonths) = Len(monthlyRanges)

\* (mutant) the catch swallows the error and the month counts as done
afterUnitError_swallow == "mark"

\* run: where the loop goes when dumpMonth or saveState throws (catch: throw error)
afterUnitError == "failed"

\* (mutant) the file is opened for appending
createWriteStream_append(file) == [exists |-> TRUE, lines |-> file.lines]

\* dumpMonth: createWriteStream(fullPath) creates the file or truncates it
createWriteStream(file) == [exists |-> TRUE, lines |-> << >>]

\* dumpMonth: writeStream.end(cb).  Without compression writeStream is the file
\* stream and cb runs once everything buffered is in the file; with compression
\* writeStream is the gzip stream piped into the file stream, and cb runs when
\* the gzip stream has finished, whatever the file stream still holds.
endResolves(gz, buffered) == gz \/ buffered = << >>

\* fs.writeFile: how many of the `left` remaining tokens one write call takes
\* (a write to a regular file takes the whole of a small buffer)
writeChunks(left) == { left }

NoFile == [exists |-> FALSE, lines |-> << >>]
Paths == AllKeys \X BOOLEAN
NoKey == <<"", 0>>

\* ---------------------------------------------------------------- state
VARIABLES
    source,         \* the collection: the set of partition-field values
    compress,       \* this.compress
    stateFile,      \* .dump-state.json
    files,          \* the artifact directory: path -> file
    buffers,        \* path -> lines written to the stream, not yet in the file
    pc,             \* position of the dump process ("stopped": no process)
    state,          \* run: state
    pendingRanges,  \* run: pendingRanges
    i,              \* run: index into pendingRanges (1-based)
    adaptiveRanges, \* run: adaptiveRanges
    j,              \* run: index into adaptiveRanges (1-based)
    processedDocs,  \* dumpMonth: processedDocs
    runNo,          \* number of runs started
    hist            \* history of the current (or last) run, for the properties

vars == << source, compress, stateFile, files, buffers, pc, state, pendingRanges, i,
           adaptiveRanges, j, processedDocs, runNo, hist >>

proc == << state, pendingRanges, i, adaptiveRanges, j, processedDocs >>

monthlyRanges ==
    LET range == getDateRange(source) IN generateMonthlyRanges(range.minDate, range.maxDate)

CurRange == adaptiveRanges[j]
CurPath == << CurRange.key, compress >>
CursorDocs == Find(source, CurRange.start, CurRange.end)

\* -------------------------------------------- state of one dumpMonth call
\* dumpMonth seen at the level of the streams it writes to (the run above
\* sees it as OpenUnit .. EndUnit / UnitFail)
VARIABLES
    dm,             \* position of dumpMonth
    cursorLeft,     \* documents the cursor has yet to return
    cursorOpen,     \* the cursor is open
    writableLength, \* chunks buffered in writeStream (the stream dumpMonth writes to)
    needDrain,      \* writeStream: a write returned false, 'drain' is owed
    destroyed,      \* writeStream is destroyed
    fileLength,     \* compress: chunks buffered in the file stream behind the gzip stream
    listeners,      \* listeners attached to writeStream, per event
    artifact,       \* the artifact file: does it exist, lines it holds
    unitError,      \* the error that has occurred during the export
    written         \* the documents serialized so far, each with the line made of it

streamVars == << dm, cursorLeft, cursorOpen, writableLength, needDrain, destroyed,
                 fileLength, listeners, artifact, unitError, written >>

NoListeners == [drain |-> 0, error |-> 0]
NoArtifact == [exists |-> FALSE, lines |-> 0]

\* no dumpMonth call is looked at
StreamIdle ==
    /\ dm = "idle"
    /\ cursorLeft = 0
    /\ cursorOpen = FALSE
    /\ writableLength = 0
    /\ needDrain = FALSE
    /\ destroyed = FALSE
    /\ fileLength = 0
    /\ listeners = NoListeners
    /\ artifact = NoArtifact
    /\ unitError = "none"
    /\ written = << >>

\* ------------------------------------------------- state of the clean command
VARIABLES
    cpc,            \* position of cleanBackedUpData ("idle": no clean command)
    months,         \* options.months, as a set ({}: not given)
    dryRun,         \* options.dryRun
    confirmDelete,  \* options.confirmDelete
    indexFile,      \* <database>_<collection>_indexes.json exists
    cleanState,     \* cleanBackedUpData: state
    backupFiles,    \* cleanBackedUpData: backupFiles
    validFiles,     \* cleanBackedUpData: validFiles
    fileIdx,        \* cleanBackedUpData: place of the deletion loop in validFiles
    deleted,        \* cleanBackedUpData: deleted
    errors,         \* cleanBackedUpData: errors
    result,         \* what cleanBackedUpData returned
    before          \* the directory when the clean command started

cleanVars == << cpc, months, dryRun, confirmDelete, indexFile, cleanState, backupFiles,
                validFiles, fileIdx, deleted, errors, result, before >>

NoResult == [returned |-> FALSE, deleted |-> << >>, errors |-> << >>, dryRun |-> << >>,
             cancelled |-> FALSE]

\* no clean command
CleanIdle ==
    /\ cpc = "idle"
    /\ months = {}
    /\ dryRun = FALSE
    /\ confirmDelete = TRUE
    /\ indexFile = FALSE
    /\ cleanState = EmptyState
    /\ backupFiles = << >>
    /\ validFiles = << >>
    /\ fileIdx = 0
    /\ deleted = << >>
    /\ errors = << >>
    /\ result = NoResult
    /\ before = [files |-> [p \in Paths |-> NoFile], stateFile |-> AbsentFile, indexFile |-> FALSE]

\* ------------------------------------------------- state of the planner alone
VARIABLES
    plan            \* the planning part of run, with the source's answers as inputs

NoPlan == [pc |-> "idle", found |-> FALSE, minDate |-> 0, maxDate |-> 0, limit |-> 1,
           monthlyRanges |-> << >>, i |-> 0, units |-> << >>, outcome |-> "none"]

\* no planning is looked at
PlanIdle == plan = NoPlan

\* ------------------------------------------------- state of the restore command
VARIABLES
    restore         \* the restore runs: process, options, state file and target collection

NoRestore == [pc |-> "idle", drop |-> FALSE, state |-> << >>, pendingChunks |-> << >>, i |-> 0,
              stateFile |-> AbsentFile, target |-> {}, runs |-> 0, outcome |-> "none"]

\* no restore command
RestoreIdle == restore = NoRestore

others == << streamVars, cleanVars, plan, restore >>

\* what no dumpMonth call, seen at the level of its streams, touches
beside == << source, stateFile, files, buffers, pc, state, pendingRanges, i,
            adaptiveRanges, j, runNo, hist, cleanVars, plan, restore >>

NoHist == [ loaded |-> {},           \* keys of the state loaded by the run
            loadedAll |-> FALSE,     \* the loaded state held every planned key
            invoked |-> << >>,       \* unit keys dumpMonth was called for, in order
            returned |-> << >>,      \* unit keys dumpMonth returned for, in order
            failure |-> "none",      \* why the run threw
            failedUnit |-> NoKey,    \* the unit whose dumpMonth threw
            saveOld |-> AbsentFile,  \* state file when the last saveState began
            saveNew |-> AbsentFile,  \* state file that saveState was writing
            outcome |-> "none",      \* how the run ended
            exitCode |-> -1,
            prev |-> "none" ]        \* outcome of the run before

InitStateFiles ==
    { AbsentFile,
      FileOf(<< Tok("{") >>),
      FileOf(EmptyObjectText),
      FileOf(NullText),
      FileOf(Stringify([completedMonths |-> << ForeignKey >>, lastProcessed |-> Tok("ts")])) }

Init ==
    /\ source \in Sources
    /\ compress \in BOOLEAN
    /\ stateFile \in InitStateFiles
    /\ files = [p \in Paths |-> NoFile]
    /\ buffers = [p \in Paths |-> << >>]
    /\ pc = "stopped"
    /\ state = EmptyState
    /\ pendingRanges = << >>
    /\ i = 0
    /\ adaptiveRanges = << >>
    /\ j = 0
    /\ processedDocs = 0
    /\ runNo = 0
    /\ hist = NoHist
    /\ StreamIdle
    /\ CleanIdle
    /\ PlanIdle
    /\ RestoreIdle

\* ---------------------------------------------------------------- actions
\* the dump command starts a process
StartRun ==
    /\ pc = "stopped"
    /\ runNo < MaxRuns
    /\ pc' = "load"
    /\ runNo' = runNo + 1
    /\ hist' = [NoHist EXCEPT !.prev = hist.outcome, !.outcome = "running"]
    /\ UNCHANGED << others, source, compress, stateFile, files, buffers, proc >>

\* run: const state = await this.loadState(); state.completedMonths.length
LoadState ==
    /\ pc = "load"
    /\ state' = loadState(stateFile)
    /\ IF HasArray(state')
       THEN /\ pc' = "plan"
            /\ hist' = [hist EXCEPT !.loaded = SeqToSet(state'.completedMonths)]
       ELSE /\ pc' = "failed"
            /\ hist' = [hist EXCEPT !.failure = "load"]
    /\ UNCHANGED << others, source, compress, stateFile, files, buffers, pendingRanges, i,
                    adaptiveRanges, j, processedDocs, runNo >>

\* run: getDateRange, generateMonthlyRanges, the filter and the early return
PlanRanges ==
    /\ pc = "plan"
    /\ IF source = {}
       THEN /\ pc' = "failed"
            /\ hist' = [hist EXCEPT !.failure = "plan"]
            /\ UNCHANGED << pendingRanges, i >>
       ELSE /\ pendingRanges' = pendingFilter(monthlyRanges, state.completedMonths)
            /\ hist' = [hist EXCEPT !.loadedAll =
                          \A k \in 1 .. Len(monthlyRanges) : monthlyRanges[k].key \in hist.loaded]
            /\ IF pendingRanges' = << >>
               THEN pc' = "returned" /\ i' = 0
               ELSE pc' = "month" /\ i' = 1
    /\ UNCHANGED << others, source, compress, stateFile, files, buffers, state,
                    adaptiveRanges, j, processedDocs, runNo >>

\* run: const adaptiveRanges = await this.generateAdaptiveRanges(monthRange)
SplitMonth ==
    /\ pc = "month"
    /\ adaptiveRanges' = generateAdaptiveRanges(source, pendingRanges[i])
    /\ j' = 1
    /\ pc' = "open"
    /\ UNCHANGED << others, source, compress, stateFile, files, buffers, state, pendingRanges, i,
                    processedDocs, runNo, hist >>

\* dumpMonth up to the cursor loop: the artifact is created, the cursor opened.
\* The file stream of the unit before is taken to have drained by then (the
\* count query and the opening of the cursor lie in between); it may still
\* hold data while the state is saved and when the process exits.
OpenUnit ==
    /\ pc = "open"
    /\ \A p \in Paths : buffers[p] = << >>
    /\ files' = [files EXCEPT ![CurPath] = createWriteStream(@)]
    /\ buffers' = [buffers EXCEPT ![CurPath] = << >>]
    /\ processedDocs' = 0
    /\ hist' = [hist EXCEPT !.invoked = Append(@, CurRange.key)]
    /\ pc' = "dumping"
    /\ UNCHANGED << others, source, compress, stateFile, state, pendingRanges, i,
                    adaptiveRanges, j, runNo >>

\* dumpMonth: one turn of the cursor loop: next(), stringify, write
WriteDoc ==
    /\ pc = "dumping"
    /\ processedDocs < Len(CursorDocs)
    /\ buffers' = [buffers EXCEPT ![CurPath] = Append(@, CursorDocs[processedDocs + 1])]
    /\ processedDocs' = processedDocs + 1
    /\ UNCHANGED << others, source, compress, stateFile, files, pc, state, pendingRanges, i,
                    adaptiveRanges, j, runNo, hist >>

\* the file stream writes what it holds to the file
Flush ==
    /\ pc # "stopped"
    /\ \E p \in Paths :
         /\ buffers[p] # << >>
         /\ files' = [files EXCEPT ![p] = [exists |-> TRUE, lines |-> @.lines \o buffers[p]]]
         /\ buffers' = [buffers EXCEPT ![p] = << >>]
    /\ UNCHANGED << others, source, compress, stateFile, pc, proc, runNo, hist >>

\* (mutant) the month is marked after any of its sub-ranges
EndUnit_marksEarly ==
    /\ pc = "dumping"
    /\ processedDocs = Len(CursorDocs)
    /\ endResolves(compress, buffers[CurPath])
    /\ hist' = [hist EXCEPT !.returned = Append(@, CurRange.key)]
    /\ pc' = "mark"
    /\ UNCHANGED << others, source, compress, stateFile, files, buffers, state, pendingRanges, i,
                    adaptiveRanges, j, processedDocs, runNo >>

\* dumpMonth: the cursor is exhausted, the stream is ended, dumpMonth returns;
\* run: next sub-range, or the month is done
EndUnit ==
    /\ pc = "dumping"
    /\ processedDocs = Len(CursorDocs)
    /\ endResolves(compress, buffers[CurPath])
    /\ hist' = [hist EXCEPT !.returned = Append(@, CurRange.key)]
    /\ IF j < Len(adaptiveRanges)
       THEN pc' = "open" /\ j' = j + 1
       ELSE pc' = "mark" /\ j' = j
    /\ UNCHANGED << others, source, compress, stateFile, files, buffers, state, pendingRanges, i,
                    adaptiveRanges, processedDocs, runNo >>

\* dumpMonth: cursor.next(), the write or the end throws: the catch destroys the
\* stream and unlinks the artifact, run's catch rethrows
UnitFail ==
    /\ pc = "dumping"
    /\ files' = [files EXCEPT ![CurPath] = NoFile]
    /\ buffers' = [buffers EXCEPT ![CurPath] = << >>]
    /\ hist' = [hist EXCEPT !.failure = "unit", !.failedUnit = CurRange.key]
    /\ pc' = afterUnitError
    /\ UNCHANGED << others, source, compress, stateFile, proc, runNo >>

\* run: the month is done: push its key, begin saveState
MarkComplete ==
    /\ pc = "mark"
    /\ state' = markComplete(state, pendingRanges[i].key)
    /\ hist' = [hist EXCEPT !.saveOld = stateFile, !.saveNew = FileOf(Stringify(state'))]
    /\ pc' = "save_open"
    /\ UNCHANGED << others, source, compress, stateFile, files, buffers, pendingRanges, i,
                    adaptiveRanges, j, processedDocs, runNo >>

\* saveState: fs.writeFile opens the state file for writing, which truncates it
SaveOpen ==
    /\ pc = "save_open"
    /\ stateFile' = FileOf(<< >>)
    /\ pc' = "save_write"
    /\ UNCHANGED << others, source, compress, files, buffers, proc, runNo, hist >>

\* saveState: fs.writeFile writes the text, in one call or in several;
\* run: next month, or the loop is over
SaveWrite ==
    /\ pc = "save_write"
    /\ LET text == Stringify(state)
           done == Len(stateFile.text)
       IN  \E n \in writeChunks(Len(text) - done) :
             /\ stateFile' = FileOf(SubSeq(text, 1, done + n))
             /\ IF done + n < Len(text)
                THEN pc' = "save_write" /\ i' = i
                ELSE IF i < Len(pendingRanges)
                     THEN pc' = "month" /\ i' = i + 1
                     ELSE pc' = "finalize" /\ i' = i
    /\ UNCHANGED << others, source, compress, files, buffers, state, pendingRanges,
                    adaptiveRanges, j, processedDocs, runNo, hist >>

\* saveState: the open or a write fails (EACCES, ENOSPC); run's catch rethrows
SaveFail ==
    /\ pc \in {"save_open", "save_write"}
    /\ hist' = [hist EXCEPT !.failure = "save"]
    /\ pc' = afterUnitError
    /\ UNCHANGED << others, source, compress, stateFile, files, buffers, proc, runNo >>

\* run: the state file is removed when the counts agree
Finalize ==
    /\ pc = "finalize"
    /\ stateFile' = IF finalizeDeletes(state, monthlyRanges) THEN AbsentFile ELSE stateFile
    /\ pc' = "returned"
    /\ UNCHANGED << others, source, compress, files, buffers, proc, runNo, hist >>

Stopped(outcome, code) ==
    /\ pc' = "stopped"
    /\ buffers' = [p \in Paths |-> << >>]
    /\ state' = EmptyState
    /\ pendingRanges' = << >>
    /\ i' = 0
    /\ adaptiveRanges' = << >>
    /\ j' = 0
    /\ processedDocs' = 0
    /\ hist' = [NoHist EXCEPT !.outcome = outcome, !.exitCode = code, !.prev = hist.prev]
    /\ UNCHANGED << others, source, compress, stateFile, files, runNo >>

\* cli: run() returned: process.exit(0); run() threw: process.exit(1)
Exit ==
    /\ pc \in {"returned", "failed"}
    /\ IF pc = "returned" THEN Stopped("success", 0) ELSE Stopped("failed", 1)

\* the process is killed (SIGKILL, power loss: 137), or receives SIGINT or
\* SIGTERM, whose handlers call process.exit(0)
Crash ==
    /\ pc # "stopped"
    /\ \E code \in {0, 137} : Stopped("crash", code)

Next ==
    \/ StartRun \/ LoadState \/ PlanRanges \/ SplitMonth \/ OpenUnit \/ WriteDoc
    \/ Flush \/ EndUnit \/ UnitFail \/ MarkComplete \/ SaveOpen \/ SaveWrite
    \/ SaveFail \/ Finalize \/ Exit \/ Crash

Spec == Init /\ [][Next]_vars

\* ============================================== dumpMonth and its streams
MaxDocs == 4

\* createWriteStream: highWaterMark, counted in chunks (one chunk per write)
HighWaterMark == 2

\* stream.write returns whether the buffer is still below the mark
canWriteMore(length) == length < HighWaterMark

mustWait_never(canWrite) == FALSE

\* writeToStreamSafely: resolve at once, or wait for 'drain'
mustWait(canWrite) == ~canWrite

\* no dump process
NoRun ==
    /\ source = {}
    /\ buffers = [p \in Paths |-> << >>]
    /\ pc = "stopped"
    /\ state = EmptyState
    /\ pendingRanges = << >>
    /\ i = 0
    /\ adaptiveRanges = << >>
    /\ j = 0
    /\ runNo = 0
    /\ hist = NoHist

InitStream ==
    /\ NoRun
    /\ CleanIdle
    /\ PlanIdle
    /\ RestoreIdle
    /\ stateFile = AbsentFile
    /\ files = [p \in Paths |-> NoFile]
    /\ compress \in BOOLEAN
    /\ processedDocs = 0
    /\ dm = "start"
    /\ cursorLeft \in 0 .. MaxDocs
    /\ cursorOpen = FALSE
    /\ writableLength = 0
    /\ needDrain = FALSE
    /\ destroyed = FALSE
    /\ fileLength = 0
    /\ listeners = NoListeners
    /\ artifact \in { NoArtifact, [exists |-> TRUE, lines |-> 1] }
    /\ unitError = "none"
    /\ written = << >>

\* dumpMonth: createWriteStream creates or truncates the artifact, find() makes
\* the cursor
DumpStart ==
    /\ dm = "start"
    /\ artifact' = [exists |-> TRUE, lines |-> 0]
    /\ cursorOpen' = TRUE
    /\ dm' = "loop"
    /\ UNCHANGED << beside, compress, written, processedDocs, cursorLeft, writableLength, needDrain,
                    destroyed, fileLength, listeners, unitError >>

\* documents as the serializers tell them apart: does the document refer to
\* an object twice (a cycle), does it hold a value that JSON has no form for
\* (a BigInt)
Docs == [cyclic : BOOLEAN, bigint : BOOLEAN]
Thrown == "thrown"

\* JSON.stringify(doc)
stringify(doc) == IF doc.cyclic \/ doc.bigint THEN Thrown ELSE "json"

safeStringify_throws(obj) == Thrown

\* safeStringify: JSON.stringify with a replacer that puts "[Circular
\* Reference]" for an object already seen; if that throws too, the text
\* {"_error": "Failed to serialize document: <message>", ...}
safeStringify(obj) == IF obj.bigint THEN "diagnostic" ELSE "sentinel"

\* dumpMonth: docJson, by JSON.stringify or, when that throws, by safeStringify
serialize(doc) == IF stringify(doc) = Thrown THEN safeStringify(doc) ELSE stringify(doc)

\* dumpMonth: catch: writeStream.destroy(), unlink of the artifact, throw;
\* finally: cursor.close()
Catch(error) ==
    /\ destroyed' = TRUE
    /\ writableLength' = 0
    /\ artifact' = NoArtifact
    /\ cursorOpen' = FALSE
    /\ unitError' = IF unitError = "none" THEN error ELSE unitError
    /\ dm' = "thrown"

\* (mutant) the document is counted but not written
NextDoc_drop ==
    /\ dm = "loop"
    /\ cursorLeft > 0
    /\ cursorLeft' = cursorLeft - 1
    /\ processedDocs' = processedDocs + 1
    /\ UNCHANGED << beside, compress, dm, cursorOpen, writableLength, needDrain, destroyed,
                    fileLength, listeners, artifact, unitError, written >>

\* dumpMonth: cursor.next() returns a document, which is serialized;
\* writeToStreamSafely writes the line.  A write to a destroyed stream returns
\* false, and no event follows it.  An error thrown by the serialization goes
\* to the catch of dumpMonth.
NextDoc ==
    /\ dm = "loop"
    /\ cursorLeft > 0
    /\ cursorLeft' = cursorLeft - 1
    /\ \E doc \in Docs :
         LET docJson == serialize(doc)
             length == IF destroyed THEN writableLength ELSE writableLength + 1
             canWrite == ~destroyed /\ canWriteMore(length)
         IN  IF docJson = Thrown
             THEN /\ Catch("serialize")
                  /\ UNCHANGED << needDrain, listeners, processedDocs, written >>
             ELSE /\ written' = Append(written, [doc |-> doc, line |-> docJson])
                  /\ writableLength' = length
                  /\ needDrain' = (needDrain \/ (~destroyed /\ ~canWrite))
                  /\ IF mustWait(canWrite)
                     THEN /\ dm' = "drainwait"
                          /\ listeners' = [drain |-> listeners.drain + 1, error |-> listeners.error + 1]
                          /\ UNCHANGED processedDocs
                     ELSE /\ dm' = "loop"
                          /\ processedDocs' = processedDocs + 1
                          /\ UNCHANGED listeners
                  /\ UNCHANGED << cursorOpen, destroyed, artifact, unitError >>
    /\ UNCHANGED << beside, compress, fileLength >>

\* writeStream takes a chunk out of its buffer: into the file, or, compressed,
\* into the file stream it is piped to (which takes it while below its mark).
\* 'drain' is emitted when the buffer runs empty after a write returned false.
StreamWrite ==
    /\ dm \in {"loop", "drainwait", "ending"}
    /\ ~destroyed
    /\ writableLength > 0
    /\ compress => fileLength < HighWaterMark
    /\ writableLength' = writableLength - 1
    /\ IF compress
       THEN fileLength' = fileLength + 1 /\ UNCHANGED artifact
       ELSE artifact' = [artifact EXCEPT !.lines = @ + 1] /\ UNCHANGED fileLength
    /\ IF writableLength' = 0 /\ needDrain /\ dm # "ending"
       THEN /\ needDrain' = FALSE
            /\ listeners' = [listeners EXCEPT !.drain = 0]
            /\ IF dm = "drainwait"
               THEN dm' = "loop" /\ processedDocs' = processedDocs + 1
               ELSE UNCHANGED << dm, processedDocs >>
       ELSE UNCHANGED << needDrain, listeners, dm, processedDocs >>
    /\ UNCHANGED << beside, compress, written, cursorLeft, cursorOpen, destroyed, unitError >>

\* compress: the file stream behind the gzip stream writes a chunk to the file
FileWrite ==
    /\ dm \in {"loop", "drainwait", "ending", "returned", "thrown"}
    /\ compress
    /\ fileLength > 0
    /\ fileLength' = fileLength - 1
    /\ artifact' = IF artifact.exists THEN [artifact EXCEPT !.lines = @ + 1] ELSE artifact
    /\ UNCHANGED << beside, compress, written, processedDocs, dm, cursorLeft, cursorOpen, writableLength,
                    needDrain, destroyed, listeners, unitError >>

\* dumpMonth: the cursor is exhausted: writeStream.end(callback); on a
\* destroyed stream the callback gets the error
EndStream ==
    /\ dm = "loop"
    /\ cursorLeft = 0
    /\ IF destroyed
       THEN Catch("sink")
       ELSE /\ dm' = "ending"
            /\ UNCHANGED << destroyed, writableLength, artifact, cursorOpen, unitError >>
    /\ UNCHANGED << beside, compress, written, processedDocs, cursorLeft, needDrain, fileLength, listeners >>

\* writeStream has finished: the callback of end() resolves, dumpMonth returns
\* (finally: cursor.close())
EndResolves ==
    /\ dm = "ending"
    /\ ~destroyed
    /\ writableLength = 0
    /\ dm' = "returned"
    /\ cursorOpen' = FALSE
    /\ UNCHANGED << beside, compress, written, processedDocs, cursorLeft, writableLength, needDrain,
                    destroyed, fileLength, listeners, artifact, unitError >>

\* cursor.next() rejects
CursorError ==
    /\ dm = "loop"
    /\ Catch("cursor")
    /\ UNCHANGED << beside, compress, written, processedDocs, cursorLeft, needDrain, fileLength, listeners >>

\* the process ends on an 'error' event nobody listens to
Uncaught ==
    /\ dm' = "uncaught"
    /\ unitError' = "sink"
    /\ writableLength' = 0
    /\ fileLength' = 0
    /\ UNCHANGED << destroyed, cursorOpen >>

\* a write to the file fails (ENOSPC, EIO): the file stream emits 'error'.
\* Compressed, the file stream has no listener but the one of pipe(), which
\* steps aside.  Uncompressed, the file stream is writeStream, which is
\* destroyed by the error and has the listeners that writeToStreamSafely
\* attached: 'once' listeners, all called and removed by the event; the one of
\* the wait that is pending rejects, those of earlier waits do nothing.  The
\* callback of end() is called with the error, listener or not.
SinkError ==
    /\ dm \in {"loop", "drainwait", "ending"}
    /\ ~destroyed
    /\ IF compress THEN fileLength > 0 ELSE writableLength > 0
    /\ IF compress
       THEN Uncaught /\ UNCHANGED << artifact, listeners >>
       ELSE IF listeners.error = 0
            THEN /\ Uncaught
                 /\ UNCHANGED listeners
                 /\ artifact' \in IF dm = "ending" THEN {artifact, NoArtifact} ELSE {artifact}
            ELSE /\ listeners' = [listeners EXCEPT !.error = 0]
                 /\ UNCHANGED fileLength
                 /\ IF dm \in {"drainwait", "ending"}
                    THEN Catch("sink")
                    ELSE /\ destroyed' = TRUE
                         /\ writableLength' = 0
                         /\ unitError' = "sink"
                         /\ UNCHANGED << dm, artifact, cursorOpen >>
    /\ UNCHANGED << beside, compress, written, processedDocs, cursorLeft, needDrain >>

NextStream ==
    \/ DumpStart \/ NextDoc \/ StreamWrite \/ FileWrite \/ EndStream \/ EndResolves
    \/ CursorError \/ SinkError

SpecStream == InitStream /\ [][NextStream]_<< streamVars, compress, processedDocs >>

\* ====================================================== the clean command
NCleanMonths == 2

CleanMonths == 0 .. (NCleanMonths - 1)
CleanKeys == { MonthKey(m) : m \in CleanMonths }

\* fs.stat(path).size, in lines; a gzip file holds its header besides
statSize(dir, path) == IF path[2] THEN Len(dir[path].lines) + 1 ELSE Len(dir[path].lines)

\* findBackupFiles: the pattern ^<db>_<coll>_(\d{4}-\d{2})\.(jsonl|bson)(\.gz)?$
\* applied to the name of an artifact: a dot has to follow the month, so the
\* name of a sub-range artifact (..._YYYY-MM-partN.jsonl) does not match
patternMatch(path) == IF path[1][2] = 0 THEN path[1] ELSE NoKey

\* fs.readdir, in the order of the names
DirListing ==
    [ q \in 1 .. (NMonths * (MaxParts + 1) * 2) |->
        << << MonthKeys[((q - 1) \div (2 * (MaxParts + 1))) + 1], ((q - 1) \div 2) % (MaxParts + 1) >>,
           (q - 1) % 2 = 1 >> ]

\* findBackupFiles: the matching files, sorted by monthKey
findBackupFiles(dir) ==
    LET found == SelectSeq(DirListing, LAMBDA path : dir[path].exists /\ patternMatch(path) # NoKey)
    IN  [ q \in 1 .. Len(found) |->
            [monthKey |-> patternMatch(found[q]), path |-> found[q], size |-> statSize(dir, found[q])] ]

\* validateBackupFile: the path is built from the month key and the options of
\* the clean command, then stat
validateBackupFile(dir, gz, monthKey) ==
    LET filePath == << monthKey, gz >> IN
    IF ~dir[filePath].exists THEN [valid |-> FALSE, path |-> filePath, reason |-> "ENOENT"]
    ELSE IF statSize(dir, filePath) = 0
         THEN [valid |-> FALSE, path |-> filePath, reason |-> "File is empty"]
         ELSE [valid |-> TRUE, path |-> filePath, reason |-> ""]

monthFilter_keepsAll(found, ms) == found

\* cleanBackedUpData: if (months && months.length > 0) filter by monthSet
monthFilter(found, ms) ==
    IF ms # {} THEN SelectSeq(found, LAMBDA file : file.monthKey \in ms) ELSE found

completedFilter_keepsAll(found, completedMonths) == found

\* cleanBackedUpData: filter by completedMonths.has(file.monthKey)
completedFilter(found, completedMonths) ==
    SelectSeq(found, LAMBDA file : file.monthKey \in completedMonths)

\* cleanBackedUpData: every candidate with the result of its validation
validated(dir, gz, candidates) ==
    [ q \in 1 .. Len(candidates) |->
        [monthKey |-> candidates[q].monthKey, path |-> candidates[q].path,
         size |-> candidates[q].size,
         validation |-> validateBackupFile(dir, gz, candidates[q].monthKey)] ]

afterValidation_deletes(dry, confirm) == "delete"

\* cleanBackedUpData: dry run returns, confirmDelete prompts, else delete
afterValidation(dry, confirm) == IF dry THEN "done" ELSE IF confirm THEN "confirm" ELSE "delete"

removeKey_keeps(st, key) == st

\* cleanBackedUpData: indexOf and splice
removeKey(st, key) ==
    LET s == st.completedMonths IN
    IF key \notin SeqToSet(s) THEN st
    ELSE LET at == CHOOSE q \in 1 .. Len(s) : s[q] = key /\ \A r \in 1 .. (q - 1) : s[r] # key
         IN  [st EXCEPT !.completedMonths = SubSeq(s, 1, at - 1) \o SubSeq(s, at + 1, Len(s))]

\* cleanBackedUpData: if (deleted.length > 0) saveState
saveDue(done) == Len(done) > 0

cleanupDue_never(st) == FALSE

\* cleanBackedUpData: if (state.completedMonths.length === 0) unlink both
cleanupDue(st) == Len(st.completedMonths) = 0

\* ---- the directories a clean command is started in
\* what a month has left in the directory: a set of <<part, gz, lines>>
MonthShapes ==
    { {},
      { << 0, TRUE, << 1 >> >> },
      { << 0, FALSE, << 1 >> >> },
      { << 0, FALSE, << >> >> },
      { << 0, TRUE, << 1 >> >>, << 0, FALSE, << >> >> },
      { << 0, TRUE, << 1 >> >>, << 0, FALSE, << 1 >> >> },
      { << 1, TRUE, << 1 >> >>, << 2, TRUE, << 1 >> >> } }

DirOf(shape) ==
    [ path \in Paths |->
        IF \E m \in CleanMonths : \E t \in shape[m] :
              path = << << MonthKeys[m + 1], t[1] >>, t[2] >>
        THEN [exists |-> TRUE,
              lines |-> (CHOOSE t \in UNION { shape[m] : m \in CleanMonths } :
                            \E m \in CleanMonths :
                               t \in shape[m] /\ path = << << MonthKeys[m + 1], t[1] >>, t[2] >>)[3]]
        ELSE NoFile ]

CleanDirs == { DirOf(shape) : shape \in [CleanMonths -> MonthShapes] }

KeySeq(S) == SelectSeq([ q \in 1 .. NCleanMonths |-> MonthKey(q - 1) ], LAMBDA key : key \in S)

CleanStateFiles ==
    { AbsentFile } \cup
    { FileOf(Stringify([completedMonths |-> KeySeq(S), lastProcessed |-> Tok("ts")])) :
        S \in SUBSET CleanKeys }

InitClean ==
    /\ NoRun
    /\ StreamIdle
    /\ PlanIdle
    /\ RestoreIdle
    /\ processedDocs = 0
    /\ compress \in BOOLEAN
    /\ files \in CleanDirs
    /\ stateFile \in CleanStateFiles
    /\ indexFile \in BOOLEAN
    /\ months \in { {} } \cup { { key } : key \in CleanKeys }
    /\ dryRun \in BOOLEAN
    /\ confirmDelete \in BOOLEAN
    /\ cpc = "start"
    /\ cleanState = EmptyState
    /\ backupFiles = << >>
    /\ validFiles = << >>
    /\ fileIdx = 0
    /\ deleted = << >>
    /\ errors = << >>
    /\ result = NoResult
    /\ before = [files |-> files, stateFile |-> stateFile, indexFile |-> indexFile]

besideClean == << source, buffers, pc, proc, runNo, hist, streamVars, compress,
                  months, dryRun, confirmDelete, before, plan, restore >>

\* cleanBackedUpData up to the deletion loop: load the state, scan, filter,
\* validate, and return early, or report for a dry run, or go on
CleanScan ==
    /\ cpc = "start"
    /\ LET st == loadState(stateFile)
           completedMonths == IF HasArray(st) THEN SeqToSet(st.completedMonths) ELSE {}
           found == findBackupFiles(files)
           filesToDelete == completedFilter(monthFilter(found, months), completedMonths)
           results == validated(files, compress, filesToDelete)
           valid == SelectSeq(results, LAMBDA file : file.validation.valid)
           invalid == SelectSeq(results, LAMBDA file : ~file.validation.valid)
       IN  /\ cleanState' = st
           /\ backupFiles' = found
           /\ IF valid = << >>
              THEN /\ cpc' = "done"
                   /\ result' = [NoResult EXCEPT !.returned = TRUE, !.errors = invalid]
                   /\ UNCHANGED << validFiles, fileIdx >>
              ELSE /\ validFiles' = valid
                   /\ fileIdx' = 1
                   /\ cpc' = afterValidation(dryRun, confirmDelete)
                   /\ result' = IF cpc' = "done"
                                THEN [NoResult EXCEPT !.returned = TRUE, !.dryRun = valid]
                                ELSE NoResult
    /\ UNCHANGED << besideClean, files, stateFile, indexFile, deleted, errors >>

\* cleanBackedUpData: promptConfirmation; anything but yes cancels
CleanConfirm ==
    /\ cpc = "confirm"
    /\ \E confirmed \in BOOLEAN :
         IF confirmed
         THEN cpc' = "delete" /\ UNCHANGED result
         ELSE cpc' = "done" /\ result' = [NoResult EXCEPT !.returned = TRUE, !.cancelled = TRUE]
    /\ UNCHANGED << besideClean, files, stateFile, indexFile, cleanState, backupFiles,
                    validFiles, fileIdx, deleted, errors >>

\* cleanBackedUpData: one turn of the deletion loop: unlink(file.path)
\* succeeds, or fails (EACCES, EBUSY) and the loop goes on
CleanUnlink ==
    /\ cpc = "delete"
    /\ LET file == validFiles[fileIdx] IN
       \E ok \in BOOLEAN :
         IF ok /\ files[file.path].exists
         THEN /\ files' = [files EXCEPT ![file.path] = NoFile]
              /\ deleted' = Append(deleted, file)
              /\ cleanState' = removeKey(cleanState, file.monthKey)
              /\ UNCHANGED errors
         ELSE /\ errors' = Append(errors, file)
              /\ UNCHANGED << files, deleted, cleanState >>
    /\ IF fileIdx < Len(validFiles)
       THEN fileIdx' = fileIdx + 1 /\ cpc' = "delete"
       ELSE fileIdx' = fileIdx /\ cpc' = "save"
    /\ UNCHANGED << besideClean, stateFile, indexFile, backupFiles, validFiles, result >>

\* cleanBackedUpData: saveState when something was deleted
CleanSave ==
    /\ cpc = "save"
    /\ stateFile' = IF saveDue(deleted) THEN FileOf(Stringify(cleanState)) ELSE stateFile
    /\ cpc' = "finalize"
    /\ UNCHANGED << besideClean, files, indexFile, cleanState, backupFiles, validFiles, fileIdx,
                    deleted, errors, result >>

\* cleanBackedUpData: with no month left, unlink the index file and the state
\* file; return
CleanFinalize ==
    /\ cpc = "finalize"
    /\ IF cleanupDue(cleanState)
       THEN indexFile' = FALSE /\ stateFile' = AbsentFile
       ELSE UNCHANGED << indexFile, stateFile >>
    /\ result' = [NoResult EXCEPT !.returned = TRUE, !.deleted = deleted, !.errors = errors]
    /\ cpc' = "done"
    /\ UNCHANGED << besideClean, files, cleanState, backupFiles, validFiles, fileIdx,
                    deleted, errors >>

NextClean == CleanScan \/ CleanConfirm \/ CleanUnlink \/ CleanSave \/ CleanFinalize

SpecClean == InitClean /\ [][NextClean]_<< cleanVars, files, stateFile >>

\* ---------------------------------------------------------------- properties
\* keys of the checkpoint a run starting now would load
PersistedKeys ==
    LET loaded == loadState(stateFile)
    IN  IF HasArray(loaded) THEN SeqToSet(loaded.completedMonths) ELSE {}

PlanKeys ==
    IF source = {} THEN {}
    ELSE LET ranges == monthlyRanges IN { ranges[k].key : k \in 1 .. Len(ranges) }

\* the units a month is exported as
UnitsOf(monthRange) ==
    LET u == generateAdaptiveRanges(source, monthRange) IN { u[k] : k \in 1 .. Len(u) }

\* the artifact of a unit holds exactly the unit's documents, in cursor order
ArtifactComplete(range) ==
    /\ files[<< range.key, compress >>].exists
    /\ files[<< range.key, compress >>].lines = Find(source, range.start, range.end)

\* the places (path, line number) of the artifact directory
Places == UNION { { << p, k >> : k \in 1 .. Len(files[p].lines) } : p \in Paths }
Occurrences(d) == Cardinality({ x \in Places : files[x[1]].lines[x[2]] = d })

Running == pc \notin {"stopped", "load", "plan"}

Last(seq) == seq[Len(seq)]
Front(seq) == SubSeq(seq, 1, Len(seq) - 1)

\* C1: after any sequence of runs, the last of which ran to completion, every
\* source document is in exactly one artifact, exactly once.
C1_NoLossNoDuplicate ==
    (pc = "stopped" /\ hist.outcome = "success") => \A d \in source : Occurrences(d) = 1

\* C2: a month key is in the persisted checkpoint only if the artifacts of the
\* month's units are fully written, flushed and closed (no stream holds data
\* for them any more and each artifact holds all of its unit's documents).
C2_KeyOnlyAfterFlushed ==
    \A k \in 1 .. Len(IF source = {} THEN << >> ELSE monthlyRanges) :
        (/\ monthlyRanges[k].key \in PersistedKeys
         /\ \A u \in UnitsOf(monthlyRanges[k]) : buffers[<< u.key, compress >>] = << >>)
        => \A u \in UnitsOf(monthlyRanges[k]) : ArtifactComplete(u)

C4_CheckpointHoldsExported ==
    (/\ Running
     /\ hist.loaded \subseteq PlanKeys
     /\ hist.failure \in {"none", "unit", "save"}
     /\ hist.returned # << >>
     /\ \A k \in 1 .. Len(hist.returned) : hist.returned[k][2] = 0)
    => \/ PersistedKeys = hist.loaded \cup SeqToSet(hist.returned)
       \/ PersistedKeys = hist.loaded \cup SeqToSet(Front(hist.returned))

\* C5: the exporter is never invoked for a unit whose key, or whose month's
\* key, is in the loaded checkpoint; and a run that returns has invoked it for
\* every unit of every planned month whose key is not in the loaded checkpoint.
C5_Filter ==
    /\ \A k \in 1 .. Len(hist.invoked) :
          /\ hist.invoked[k] \notin hist.loaded
          /\ MonthOfKey(hist.invoked[k]) \notin hist.loaded
    /\ pc = "returned" =>
          LET ranges == monthlyRanges
          IN  \A k \in 1 .. Len(ranges) :
                  ranges[k].key \notin hist.loaded
                  => \A u \in UnitsOf(ranges[k]) : u.key \in SeqToSet(hist.invoked)

C5_Witness ==
    /\ pc = "returned"
    /\ hist.loaded \cap PlanKeys # {}
    /\ hist.invoked # << >>

\* C6: a run that returns (every planned unit is then complete) has deleted
\* the checkpoint file.
C6_FinalizeDeletes == pc = "returned" => ~stateFile.exists

C8_LoadNeverAborts == ~(pc = "failed" /\ hist.failure = "load")

\* C9: while saveState runs, and after it failed, the checkpoint file is the
\* complete file of before the save or the complete new one.
C9_SaveAtomic ==
    (pc \in {"save_open", "save_write"} \/ (pc = "failed" /\ hist.failure = "save"))
    => stateFile \in {hist.saveOld, hist.saveNew}

\* C10: once the export of a unit has failed, the run is aborted with the
\* error: no later unit is exported, and neither the failed unit's key nor its
\* month's key is in the checkpoint, in memory or persisted.
C10_UnitFailureAborts ==
    hist.failure = "unit"
    => /\ pc = "failed"
       /\ Last(hist.invoked) = hist.failedUnit
       /\ hist.failedUnit \notin SeqToSet(hist.returned)
       /\ {hist.failedUnit, MonthOfKey(hist.failedUnit)} \cap SeqToSet(state.completedMonths) = {}
       /\ {hist.failedUnit, MonthOfKey(hist.failedUnit)} \cap PersistedKeys = {}

C10_Witness ==
    /\ pc = "failed"
    /\ hist.failure = "unit"
    /\ i < Len(pendingRanges)
    /\ hist.returned # << >>

\* C11: when SIGINT or SIGTERM arrives while a unit is being exported, the
\* process exits only with the unit's artifact either complete or deleted.
C11_SignalAbortsCleanly ==
    [][ (pc = "dumping" /\ pc' = "stopped" /\ hist'.outcome = "crash" /\ hist'.exitCode = 0)
        => (~files'[CurPath].exists \/ files'[CurPath].lines = CursorDocs) ]_vars

\* C12: once an error has occurred during a unit's export (the cursor failed,
\* or a write to the file failed), dumpMonth has thrown with the cursor closed
\* and the artifact removed; or the error is still to be met by the next call
\* on the destroyed stream.
C12_ErrorCleansUp ==
    unitError # "none"
    => \/ (dm = "thrown" /\ ~artifact.exists /\ ~cursorOpen)
       \/ (dm = "loop" /\ destroyed)

\* C13: while 'drain' is owed after a write that reported a full buffer, no
\* further document is pulled and written; the buffer never holds more than
\* the write that filled it.
C13_Backpressure ==
    [][ (needDrain => cursorLeft' = cursorLeft) /\ writableLength' <= HighWaterMark
      ]_<< streamVars, compress, processedDocs >>

C13_Witness == dm = "drainwait" /\ needDrain /\ ~destroyed /\ cursorLeft > 0 /\ processedDocs >= 1

\* ---- the clean command
\* keys of the checkpoint when the clean command started
BeforeKeys ==
    IF HasArray(loadState(before.stateFile))
    THEN SeqToSet(loadState(before.stateFile).completedMonths) ELSE {}

\* the artifacts the clean command has removed from the directory, and their keys
Removed == { path \in Paths : before.files[path].exists /\ ~files[path].exists }
RemovedKeys == { path[1] : path \in Removed }

PathsOf(list) == { list[q].path : q \in 1 .. Len(list) }

\* the artifacts a clean command with these options is to delete: named by
\* the convention for a month of the target list (if one is given) that the
\* checkpoint lists, and whose validation succeeds
WouldDelete ==
    { path \in Paths :
        /\ before.files[path].exists
        /\ patternMatch(path) # NoKey
        /\ months # {} => path[1] \in months
        /\ path[1] \in BeforeKeys
        /\ validateBackupFile(before.files, compress, path[1]).valid }

\* C14: every artifact a clean command removes has a key that was in the
\* checkpoint when the command started.
C14_NoOrphanDeleted == \A path \in Removed : path[1] \in BeforeKeys

C14_Witness ==
    /\ cpc = "done"
    /\ Removed # {}
    /\ \E path \in Paths :
         files[path].exists /\ patternMatch(path) # NoKey /\ path[1] \notin BeforeKeys

\* C15: the path the clean command unlinks is the path it validated.
C15_DeletesValidatedPath ==
    \A q \in 1 .. Len(deleted) : deleted[q].path = deleted[q].validation.path

C18_ScanFindsEveryArtifact ==
    cpc # "start" => \A path \in Paths : before.files[path].exists => path \in PathsOf(backupFiles)

C20_OnlyTargetMonths ==
    months # {}
    => /\ \A path \in Removed : path[1] \in months
       /\ (BeforeKeys \ PersistedKeys) \subseteq months

C20_Witness ==
    /\ cpc = "done"
    /\ months # {}
    /\ Removed # {}
    /\ \E path \in Paths :
         /\ files[path].exists
         /\ path[1] \in (BeforeKeys \cap PersistedKeys) \ months
         /\ validateBackupFile(files, compress, path[1]).valid

\* C21: an artifact that is invalid (of zero length, or of a unit the
\* checkpoint does not list) is never removed by a clean command; and a clean
\* command that went on to delete has tried every candidate whose validation
\* succeeded, whatever invalid candidates were beside them.
C21_InvalidSkippedNotDeleted ==
    /\ \A path \in Removed : statSize(before.files, path) > 0 /\ path[1] \in BeforeKeys
    /\ (cpc = "done" /\ ~dryRun /\ ~result.cancelled)
         => PathsOf(deleted) \cup PathsOf(errors) = WouldDelete

\* =========================================================================
\* The planner alone: run from getDateRange to the end of its two loops, the
\* export itself left out.  What the source answers (the documents the two
\* sorted queries return, the count of every month) and the maxDocsPerRange
\* parameter are inputs.
\* =========================================================================
MaxCount == 10

Ticks == 0 .. (NMonths * MonthLen - 1)
\* values of the maxDocsPerRange parameter
Limits == { 1, maxDocsPerRange }
\* answers of countDocuments for one month: none, at the limit, just above it,
\* three, and enough for MaxCount sub-ranges at limit 1
DocCounts(limit) == { 0, limit, limit + 1, 3, MaxCount }

\* the text of a key, as character codes: `${year}-${padStart(month, 2, '0')}`
\* and `${monthRange.key}-part${i + 1}`
MonthNo(key) == CHOOSE m \in 1 .. Len(MonthKeys) : MonthKeys[m] = key[1]
RECURSIVE Digits(_)
Digits(n) == IF n < 10 THEN << 48 + n >> ELSE Digits(n \div 10) \o << 48 + (n % 10) >>
KeyText(key) ==
    << 50, 48, 50, 51, 45, 48 + (MonthNo(key) \div 10), 48 + (MonthNo(key) % 10) >>
        \o (IF key[2] = 0 THEN << >> ELSE << 45, 112, 97, 114, 116 >> \o Digits(key[2]))

\* a < b for strings, as JavaScript compares them
StringLess(a, b) ==
    \E k \in 1 .. (Len(a) + 1) :
        /\ k <= Len(b)
        /\ \A h \in 1 .. (k - 1) : a[h] = b[h]
        /\ (k = Len(a) + 1 \/ a[k] < b[k])

InitPlan ==
    /\ NoRun
    /\ StreamIdle
    /\ CleanIdle
    /\ RestoreIdle
    /\ stateFile = AbsentFile
    /\ files = [p \in Paths |-> NoFile]
    /\ compress = FALSE
    /\ processedDocs = 0
    /\ plan \in { [NoPlan EXCEPT !.pc = "start", !.found = TRUE, !.minDate = a,
                                 !.maxDate = b, !.limit = l] :
                    a \in Ticks, b \in Ticks, l \in Limits }
                \cup { [NoPlan EXCEPT !.pc = "start", !.limit = l] : l \in Limits }

besidePlan == << vars, streamVars, cleanVars, restore >>

\* run: getDateRange, generateMonthlyRanges, the filter against a state with
\* no completed month, and the early return when nothing is pending
PlannerRanges ==
    /\ plan.pc = "start"
    /\ plan' =
         IF ~plan.found
         THEN [plan EXCEPT !.pc = "done", !.outcome = "error"]
         ELSE LET ranges == generateMonthlyRanges(plan.minDate, plan.maxDate)
              IN  IF Len(ranges) = 0
                  THEN [plan EXCEPT !.pc = "done", !.outcome = "completed"]
                  ELSE [plan EXCEPT !.pc = "loop", !.monthlyRanges = ranges, !.i = 1]
    /\ UNCHANGED besidePlan

\* one turn of the month loop: generateAdaptiveRanges, then the sub-range
\* loop over what it returned
PlannerSplit ==
    /\ plan.pc = "loop"
    /\ plan.i <= Len(plan.monthlyRanges)
    /\ \E totalDocs \in DocCounts(plan.limit) :
         plan' = [plan EXCEPT
                    !.units = Append(@, [monthRange |-> plan.monthlyRanges[plan.i],
                                         totalDocs |-> totalDocs,
                                         adaptiveRanges |-> adaptiveSplit(plan.monthlyRanges[plan.i],
                                                                          totalDocs, plan.limit)]),
                    !.i = @ + 1]
    /\ UNCHANGED besidePlan

\* the month loop is over
PlannerEnd ==
    /\ plan.pc = "loop"
    /\ plan.i > Len(plan.monthlyRanges)
    /\ plan' = [plan EXCEPT !.pc = "done", !.outcome = "completed"]
    /\ UNCHANGED besidePlan

NextPlan == PlannerRanges \/ PlannerSplit \/ PlannerEnd

SpecPlan == InitPlan /\ [][NextPlan]_plan

\* the units of the planner's run, in the order the two loops reach them
RECURSIVE UnitOrder(_)
UnitOrder(units) ==
    IF units = << >> THEN << >>
    ELSE Head(units).adaptiveRanges \o UnitOrder(Tail(units))

Planned == plan.pc \in { "loop", "done" } /\ plan.found /\ plan.minDate <= plan.maxDate

\* C22: for minDate <= maxDate the monthly ranges are contiguous (each range
\* ends where the next one starts, so there is neither gap nor overlap), the
\* first starts at the first instant of the month that holds minDate and the
\* last ends at the first instant of the month after the one that holds maxDate.
C22_MonthlyCoverage ==
    Planned =>
        LET ranges == generateMonthlyRanges(plan.minDate, plan.maxDate)
            first == ranges[1]
            last == ranges[Len(ranges)]
        IN  /\ Len(ranges) >= 1
            /\ plan.pc = "loop" => plan.monthlyRanges = ranges
            /\ \A k \in 1 .. (Len(ranges) - 1) : ranges[k].end = ranges[k + 1].start
            /\ \A k \in 1 .. Len(ranges) : ranges[k].start < ranges[k].end
            /\ first.start % MonthLen = 0
            /\ first.start <= plan.minDate /\ plan.minDate < first.start + MonthLen
            /\ last.end % MonthLen = 0
            /\ last.end - MonthLen <= plan.maxDate /\ plan.maxDate < last.end

\* the planner has ranged over three months, from inside the first one
C22_Witness ==
    /\ plan.pc = "loop"
    /\ Len(plan.monthlyRanges) >= 3
    /\ plan.minDate % MonthLen # 0
    /\ plan.minDate <= plan.maxDate

\* C23: for minDate <= maxDate the monthly planner returns one range for every
\* calendar month from the month of minDate to the month of maxDate, both
\* included, each keyed "YYYY-MM" for the month of its start; the keys are
\* pairwise distinct and strictly increasing as strings (a range from the
\* first to the third month of 2023 gives 2023-01, 2023-02, 2023-03).
C23_OneRangePerMonth ==
    Planned =>
        LET ranges == generateMonthlyRanges(plan.minDate, plan.maxDate)
            firstMonth == plan.minDate \div MonthLen
            lastMonth == plan.maxDate \div MonthLen
        IN  /\ Len(ranges) = lastMonth - firstMonth + 1
            /\ \A k \in 1 .. Len(ranges) :
                 /\ ranges[k].start = (firstMonth + k - 1) * MonthLen
                 /\ ranges[k].key = << MonthKeys[(ranges[k].start \div MonthLen) + 1], 0 >>
            /\ \A k, h \in 1 .. Len(ranges) :
                 k < h => /\ ranges[k].key # ranges[h].key
                          /\ StringLess(KeyText(ranges[k].key), KeyText(ranges[h].key))
            /\ (firstMonth = 0 /\ lastMonth = 2) =>
                 [k \in 1 .. Len(ranges) |-> ranges[k].key[1]] = << "2023-01", "2023-02", "2023-03" >>

\* the planner has ranged from the first month to the third
C23_Witness ==
    /\ plan.pc = "loop"
    /\ plan.minDate \div MonthLen = 0
    /\ plan.maxDate \div MonthLen = 2
    /\ Len(plan.monthlyRanges) = 3

\* C24: when a month's count is above the limit, the sub-ranges returned are
\* in order and contiguous (each ends where the next starts, so they do not
\* overlap), the first starts at the parent's start and the last ends at the
\* parent's end: together they cover exactly the parent's interval.
C24_SplitCoversParent ==
    \A u \in 1 .. Len(plan.units) :
        LET parent == plan.units[u].monthRange
            subs == plan.units[u].adaptiveRanges
        IN  plan.units[u].totalDocs > plan.limit =>
              /\ Len(subs) >= 1
              /\ subs[1].start = parent.start
              /\ subs[Len(subs)].end = parent.end
              /\ \A k \in 1 .. (Len(subs) - 1) : subs[k].end = subs[k + 1].start
              /\ \A k \in 1 .. Len(subs) : subs[k].start <= subs[k].end
              /\ \A t \in parent.start .. (parent.end - 1) :
                   Cardinality({ k \in 1 .. Len(subs) : subs[k].start <= t /\ t < subs[k].end }) = 1

\* a month was split into three sub-ranges whose length does not divide the
\* month's
C24_Witness ==
    \E u \in 1 .. Len(plan.units) :
        /\ Len(plan.units[u].adaptiveRanges) = 3
        /\ plan.units[u].adaptiveRanges[3].end - plan.units[u].adaptiveRanges[3].start
             > plan.units[u].adaptiveRanges[1].end - plan.units[u].adaptiveRanges[1].start

\* C25: the adaptive planner returns the range itself, with its own key, when
\* and only when the count is at most the limit; otherwise it returns
\* n = ceil(count / limit) sub-ranges keyed "<parent key>-part<i>", i = 1..n
\* in order.
C25_SplitCount ==
    \A u \in 1 .. Len(plan.units) :
        LET parent == plan.units[u].monthRange
            subs == plan.units[u].adaptiveRanges
            count == plan.units[u].totalDocs
            n == CHOOSE x \in 1 .. (count + 1) :
                    x * plan.limit >= count /\ (x - 1) * plan.limit < count
        IN  /\ count <= plan.limit => subs = << parent >>
            /\ count > plan.limit =>
                 /\ subs # << parent >>
                 /\ Len(subs) = n
                 /\ \A k \in 1 .. n :
                      KeyText(subs[k].key)
                        = KeyText(parent.key) \o << 45, 112, 97, 114, 116 >> \o Digits(k)

\* one month was left whole at the limit and another, one document above a
\* limit of two, was split in two
C25_Witness ==
    /\ plan.limit = 2
    /\ \E u, v \in 1 .. Len(plan.units) :
         /\ plan.units[u].totalDocs = 2 /\ Len(plan.units[u].adaptiveRanges) = 1
         /\ plan.units[v].totalDocs = 3 /\ Len(plan.units[v].adaptiveRanges) = 2

\* C26: every range of the planner, monthly range or sub-range, starts before
\* it ends, whatever the count and the limit.
C26_RangesNotEmpty ==
    /\ \A k \in 1 .. Len(plan.monthlyRanges) :
         plan.monthlyRanges[k].start < plan.monthlyRanges[k].end
    /\ \A k \in 1 .. Len(UnitOrder(plan.units)) :
         UnitOrder(plan.units)[k].start < UnitOrder(plan.units)[k].end

\* C27: planning over an empty collection, or with minDate after maxDate,
\* fails with an error: the run does not end successfully with no unit
\* exported.
C27_DegenerateInputFails ==
    (plan.pc = "done" /\ plan.outcome = "completed")
        => plan.found /\ plan.minDate <= plan.maxDate /\ Len(plan.units) >= 1

\* C30: the units of a run are reached in ascending order of their keys as
\* strings, the sub-ranges of a month split in ten or more parts included.
C30_AscendingKeyOrder ==
    \A a, b \in 1 .. Len(UnitOrder(plan.units)) :
        a < b => StringLess(KeyText(UnitOrder(plan.units)[a].key),
                            KeyText(UnitOrder(plan.units)[b].key))

\* C29: the dump command's exit code is 0 only when the run succeeded; a run
\* that failed, or that ended before all its units were complete (a SIGINT or
\* SIGTERM in mid-run included), exits with another code.
C29_ExitCodeZeroOnlyOnSuccess ==
    (pc = "stopped" /\ hist.exitCode = 0) => hist.outcome = "success"

InitResume ==
    /\ stateFile \in { AbsentFile,
                       FileOf(Stringify([completedMonths |-> << ForeignKey >>,
                                         lastProcessed |-> Tok("ts")])) }
    /\ source \in Sources
    /\ compress = TRUE
    /\ files = [p \in Paths |-> NoFile]
    /\ buffers = [p \in Paths |-> << >>]
    /\ pc = "stopped"
    /\ state = EmptyState
    /\ pendingRanges = << >>
    /\ i = 0
    /\ adaptiveRanges = << >>
    /\ j = 0
    /\ processedDocs = 0
    /\ runNo = 0
    /\ hist = NoHist
    /\ StreamIdle
    /\ CleanIdle
    /\ PlanIdle
    /\ RestoreIdle

SpecResume == InitResume /\ [][Next]_vars

\* C31: at most one unit is in flight: a unit's export starts only after the
\* export of the unit before it has returned and the checkpoint save that
\* followed it has finished; and the checkpoint is written only while no unit
\* is being exported, by the one saveState of the month loop.
C31_OneUnitInFlight ==
    /\ Len(hist.invoked) - Len(hist.returned) \in {0, 1}
    /\ pc = "dumping" => (hist.returned = Front(hist.invoked) /\ Last(hist.invoked) = CurRange.key)
    /\ pc \in {"month", "open", "mark", "save_open", "save_write", "finalize"}
         => hist.returned = hist.invoked
    /\ pc \in {"month", "open", "dumping"} => loadState(stateFile) = state

\* the unit of a second month is being exported, after a unit has returned and
\* the checkpoint with its month's key was saved
C31_Witness ==
    /\ pc = "dumping"
    /\ i >= 2
    /\ hist.returned # << >>
    /\ state.completedMonths # << >>
    /\ stateFile = FileOf(Stringify(state))

\* C32: a failure of the checkpoint save that follows an exported month is
\* fatal: run() throws, the save is not tried again and no later unit is
\* exported (the last unit invoked is one of the month whose save failed).
C32_SaveFailureIsFatal ==
    hist.failure = "save"
    => /\ pc = "failed"
       /\ hist.invoked = hist.returned
       /\ MonthOfKey(Last(hist.invoked)) = pendingRanges[i].key
       /\ Last(state.completedMonths) = pendingRanges[i].key

\* the save failed while months were still pending
C32_Witness ==
    /\ pc = "failed"
    /\ hist.failure = "save"
    /\ i < Len(pendingRanges)

C34_ReturnsAfterFileFlushed ==
    dm = "returned" => (fileLength = 0 /\ artifact.exists /\ artifact.lines = Len(written))

\* C35: within a unit every document pulled from the cursor is written to the
\* sink once: the documents counted are those written, a document is pulled
\* only when the write of the one before has been accepted (while a write
\* waits, it is the only one not counted yet), every line written is in
\* exactly one place of the sink (a stream buffer or the file), and a unit
\* that returns has pulled everything and counted every line.
C35_EachRecordWrittenOnce ==
    /\ dm \in {"loop", "ending", "returned"} => processedDocs = Len(written)
    /\ dm = "drainwait" => Len(written) = processedDocs + 1
    /\ dm = "returned" => cursorLeft = 0
    /\ (dm \in {"loop", "drainwait", "ending", "returned"} /\ ~destroyed)
         => writableLength + fileLength + artifact.lines = Len(written)

\* a unit of several documents has returned after at least one wait for drain
C35_Witness ==
    /\ dm = "returned"
    /\ processedDocs >= 3
    /\ listeners.error >= 1

\* C36: the key of a split month is added to the checkpoint, in memory and
\* persisted, only after every sub-range of the month has been exported in
\* this run; a run that starts after a failure or an interruption in the
\* middle of the month exports all the month's sub-ranges.
C36_MonthKeyAfterAllParts ==
    /\ (Running /\ source # {}) =>
         LET persisted == PersistedKeys
             returned == SeqToSet(hist.returned)
             ranges == monthlyRanges
         IN  \A k \in 1 .. Len(ranges) :
                 (/\ ranges[k].key \notin hist.loaded
                  /\ \/ ranges[k].key \in SeqToSet(state.completedMonths)
                     \/ ranges[k].key \in persisted)
                 => LET units == UnitsOf(ranges[k])
                    IN  Cardinality(units) > 1 => \A u \in units : u.key \in returned
    /\ (pc = "dumping" /\ Len(adaptiveRanges) > 1)
         => /\ pendingRanges[i].key \notin PersistedKeys
            /\ \A n \in 1 .. j : hist.invoked[Len(hist.invoked) - j + n] = adaptiveRanges[n].key

\* in a later run the second sub-range of a month is exported, after the first
\* one was exported again, while the artifact is there already
C36_Witness ==
    /\ pc = "dumping"
    /\ runNo >= 2
    /\ Len(adaptiveRanges) = 2 /\ j = 2
    /\ hist.prev \in {"crash", "failed"}
    /\ hist.returned = << adaptiveRanges[1].key >>
    /\ files[CurPath].lines # << >>

\* C37: an error of the sink, at whatever moment of the export it is raised,
\* makes dumpMonth reject through its cleanup path: the error is not left
\* unhandled, and the unit is not reported as exported.
C37_SinkErrorObserved ==
    /\ unitError = "sink" => (dm = "thrown" /\ ~artifact.exists /\ ~cursorOpen)
    /\ dm = "returned" => unitError = "none"

\* C38: no listener of a backpressure wait stays attached to the sink once
\* the wait is over, so the number of listeners does not grow with the number
\* of records written.
C38_NoListenerLeftAfterWait ==
    dm # "drainwait" => listeners = NoListeners

\* =========================================================================
\* A clean command and a dump run on the same output directory, as two
\* processes whose steps interleave: the run's steps are those of Spec up to
\* the return or the throw of run(), the clean command's those of SpecClean
\* (--no-confirm, no month list, no dry run).
\* =========================================================================
InitBoth ==
    /\ source = { m * MonthLen : m \in Months }
    /\ compress \in BOOLEAN
    /\ stateFile = AbsentFile
    /\ files = [p \in Paths |-> NoFile]
    /\ buffers = [p \in Paths |-> << >>]
    /\ pc = "stopped"
    /\ state = EmptyState
    /\ pendingRanges = << >>
    /\ i = 0
    /\ adaptiveRanges = << >>
    /\ j = 0
    /\ processedDocs = 0
    /\ runNo = MaxRuns - 1
    /\ hist = NoHist
    /\ StreamIdle
    /\ PlanIdle
    /\ RestoreIdle
    /\ months = {}
    /\ dryRun = FALSE
    /\ confirmDelete = FALSE
    /\ indexFile \in BOOLEAN
    /\ cpc = "start"
    /\ cleanState = EmptyState
    /\ backupFiles = << >>
    /\ validFiles = << >>
    /\ fileIdx = 0
    /\ deleted = << >>
    /\ errors = << >>
    /\ result = NoResult
    /\ before = [files |-> files, stateFile |-> stateFile, indexFile |-> indexFile]

NextBoth ==
    \/ StartRun \/ LoadState \/ PlanRanges \/ SplitMonth \/ OpenUnit \/ WriteDoc
    \/ Flush \/ EndUnit \/ UnitFail \/ MarkComplete \/ SaveOpen \/ SaveWrite \/ Finalize
    \/ CleanScan \/ CleanUnlink \/ CleanSave \/ CleanFinalize

SpecBoth == InitBoth /\ [][NextBoth]_<< vars, cleanVars >>

\* keys of the artifacts the clean command has deleted
DeletedKeys == { deleted[q].monthKey : q \in 1 .. Len(deleted) }

\* C39: when a clean command and a dump run have worked on the same directory
\* with their steps interleaved and both have finished, the persisted
\* checkpoint holds no key whose artifact the clean command deleted, and,
\* after a run that did not complete (a completed run removes the checkpoint
\* file), it holds every key the run completed whose artifact was not deleted.
C39_NoLostCheckpointUpdate ==
    (cpc = "done" /\ pc \in {"returned", "failed"})
    => /\ PersistedKeys \cap DeletedKeys = {}
       /\ pc = "failed" => (SeqToSet(state.completedMonths) \ DeletedKeys) \subseteq PersistedKeys

\* =========================================================================
\* The restore command (lib/mongo-restorer.js): runs of MongoRestorer.run
\* over an input directory with one chunk per month, each run started with or
\* without --drop and interrupted anywhere or run to its end.  `target` is the
\* set of chunks whose data the target collection holds in full; the state
\* file holds the restoredFiles list.
\* =========================================================================
\* findDumpChunks: the chunk directories, sorted by month key
findDumpChunks == [ m \in 1 .. NMonths |-> MonthKey(m - 1) ]

\* MongoRestorer.loadState: the list of the state file, or the empty list
restorerLoadState(file) == IF file.exists THEN file.text ELSE << >>

\* run: chunks.filter(chunk => !state.restoredFiles.includes(chunk.monthKey))
pendingChunks(chunks, restoredFiles) ==
    SelectSeq(chunks, LAMBDA chunk : chunk \notin SeqToSet(restoredFiles))

InitRestore ==
    /\ NoRun
    /\ StreamIdle
    /\ CleanIdle
    /\ PlanIdle
    /\ stateFile = AbsentFile
    /\ files = [p \in Paths |-> NoFile]
    /\ compress = FALSE
    /\ processedDocs = 0
    /\ restore = [NoRestore EXCEPT !.pc = "stopped"]

besideRestore == << vars, streamVars, cleanVars, plan >>

\* the restore command starts; run: connect, drop the collection if asked to,
\* loadState, findDumpChunks, the filter and the early return
RestoreStart ==
    /\ restore.pc = "stopped"
    /\ restore.runs < MaxRuns
    /\ \E drop \in BOOLEAN :
         LET loaded == restorerLoadState(restore.stateFile)
             pending == pendingChunks(findDumpChunks, loaded)
         IN  restore' = [restore EXCEPT
                           !.runs = @ + 1,
                           !.drop = drop,
                           !.target = IF drop THEN {} ELSE @,
                           !.state = loaded,
                           !.pendingChunks = pending,
                           !.i = IF pending = << >> THEN 0 ELSE 1,
                           !.pc = IF pending = << >> THEN "returned" ELSE "chunk",
                           !.outcome = "running"]
    /\ UNCHANGED besideRestore

\* restoreChunk: mongorestore has loaded the chunk
RestoreChunk ==
    /\ restore.pc = "chunk"
    /\ restore' = [restore EXCEPT !.target = @ \cup { restore.pendingChunks[restore.i] },
                                  !.pc = "save"]
    /\ UNCHANGED besideRestore

\* restoreChunk: mongorestore fails; run's catch rethrows
RestoreChunkFail ==
    /\ restore.pc = "chunk"
    /\ restore' = [restore EXCEPT !.pc = "failed"]
    /\ UNCHANGED besideRestore

\* run: push the chunk's key, saveState; next chunk, or the loop is over
RestoreSave ==
    /\ restore.pc = "save"
    /\ LET pushed == Append(restore.state, restore.pendingChunks[restore.i])
       IN  restore' = [restore EXCEPT
                         !.state = pushed,
                         !.stateFile = FileOf(pushed),
                         !.i = IF restore.i < Len(restore.pendingChunks) THEN @ + 1 ELSE @,
                         !.pc = IF restore.i < Len(restore.pendingChunks) THEN "chunk" ELSE "finalize"]
    /\ UNCHANGED besideRestore

\* run: the state file is removed when every chunk is in the list
RestoreFinalize ==
    /\ restore.pc = "finalize"
    /\ restore' = [restore EXCEPT
                     !.stateFile = IF Len(restore.state) = Len(findDumpChunks) THEN AbsentFile ELSE @,
                     !.pc = "returned"]
    /\ UNCHANGED besideRestore

\* the process ends: run() returned or threw
RestoreExit ==
    /\ restore.pc \in {"returned", "failed"}
    /\ restore' = [restore EXCEPT !.pc = "stopped", !.state = << >>, !.pendingChunks = << >>,
                                  !.i = 0,
                                  !.outcome = IF restore.pc = "returned" THEN "completed" ELSE "failed"]
    /\ UNCHANGED besideRestore

\* the process is interrupted
RestoreInterrupt ==
    /\ restore.pc \in {"chunk", "save", "finalize", "returned", "failed"}
    /\ restore' = [restore EXCEPT !.pc = "stopped", !.state = << >>, !.pendingChunks = << >>,
                                  !.i = 0, !.outcome = "interrupted"]
    /\ UNCHANGED besideRestore

NextRestore ==
    \/ RestoreStart \/ RestoreChunk \/ RestoreChunkFail \/ RestoreSave \/ RestoreFinalize
    \/ RestoreExit \/ RestoreInterrupt

SpecRestore == InitRestore /\ [][NextRestore]_restore

\* C40: after restore runs, each with or without --drop and interrupted
\* anywhere, the last of which ran to completion, the target collection holds
\* the data of every chunk of the input directory.
C40_RestoreComplete ==
    (restore.pc = "stopped" /\ restore.outcome = "completed")
        => restore.target = SeqToSet(findDumpChunks)

====
